---- MODULE Spec2Model ----
(***************************************************************************)
(* Model of realrobotshow_ctrl/state_manager.py (class StateManager).      *)
(*                                                                         *)
(* The control thread runs spin(): it reads _current_state, runs the       *)
(* matching state handler, and every fifth cycle emits status and LEDs.    *)
(* The rospy callbacks (_process_button, _process_localized,               *)
(* _process_deliver_order, _navigator_done, _navigator_feedback) run on    *)
(* their own threads, so their statements interleave with the statements   *)
(* of the handler.  Every access to a field shared between threads is one  *)
(* step of the model; statements that touch only thread-local data are     *)
(* merged into the neighbouring step.                                      *)
(***************************************************************************)
EXTENDS Integers, Sequences, FiniteSets

\* ---------------------------------------------------------------- bounds
\* Saturation value of the observation counters.
MaxCount == 2

\* ------------------------------------------------------- program constants
STATE_INITIALIZATION == "INITIALIZATION"
STATE_GOTO_KITCHEN   == "GOTO_KITCHEN"
STATE_AT_KITCHEN     == "AT_KITCHEN"
STATE_GOTO_TABLE     == "GOTO_TABLE"
STATE_AT_TABLE       == "AT_TABLE"
STATE_ON_ERROR       == "ON_ERROR"

States == {STATE_INITIALIZATION, STATE_GOTO_KITCHEN, STATE_AT_KITCHEN,
           STATE_GOTO_TABLE, STATE_AT_TABLE, STATE_ON_ERROR}

kitchen_location == "kitchen"

\* spin(): status and LEDs are emitted when t wraps to 1, i.e. every 5 cycles.
SpinPeriod == 5
\* _blink_leds: last_blink_led alternates between 1 and 2.
BlinkPhases == 2

\* LED colours (kobuki_msgs.Led)
off_led   == "BLACK"
red_led   == "RED"
green_led == "GREEN"

\* Destinations an order goal can carry.
Tables == {"table1", "table2"}
\* The orders of a run in which every order names the same table.
OneTable == {"table1"}

\* Value shown for a local, a goal or an emission that has not been set yet.
Unset == "unset"
\* _previous_button = None; a stored sample m is the one-element tuple <<m>>.
None == <<>>
\* Fields that __init__ never assigns: reading one before its first
\* assignment raises AttributeError.  The variable assigned holds those
\* that have been assigned.
LateFields == {"_navigator_finished", "_navigator_feed", "_delivery_location"}

\* kobuki_msgs.DigitalInputEvent: values[0] is the green button, values[1] red.
ButtonMsgs == [green : BOOLEAN, red : BOOLEAN]
\* The samples with the red button released.
GreenMsgs == {msg \in ButtonMsgs : ~msg.red}

\* The two results the manager hands to the action server.
RejectMessage  == "Robot is not at kitchen. Ignore the order!"
SuccessMessage == "Delivery Success!"

VARIABLES
    \* fields of StateManager
    current_state, initialized, previous_button, init_requested,
    delivery_order_received, customer_confirm, order_in_progress,
    delivery_location, navigator_finished, navigator_feed, last_blink_led,
    assigned,
    \* spin(): local t, the handler picked for this cycle, the control
    \* thread's position, and the location argument evaluated at line 252
    t, tick_state, pc, goal_location,
    \* positions and locals of the callback threads
    b_pc, d_pc, o_pc, o_goal,
    \* collaborators: navigation action client, order action server
    nav_result, server_goal,
    \* emissions: LEDs, localization requests published
    led1, led2, localize_sent,
    \* observations of the run used to state the properties
    tick_writes, tick_reqs, episode_reqs

fields == <<current_state, initialized, previous_button, init_requested,
            delivery_order_received, customer_confirm, order_in_progress,
            delivery_location, navigator_finished, navigator_feed,
            last_blink_led, assigned>>
control == <<t, tick_state, pc, goal_location>>
collab == <<nav_result, server_goal>>
emitted == <<led1, led2, localize_sent>>
observed == <<tick_writes, tick_reqs, episode_reqs>>

vars == <<fields, control, b_pc, d_pc, o_pc, o_goal, collab, emitted,
          observed>>

Sat(n) == IF n < MaxCount THEN n + 1 ELSE MaxCount

\* __init__ (_init_variables, _init_led_blinkder) and the first lines of spin.
Init ==
    /\ current_state = STATE_ON_ERROR
    /\ initialized = FALSE
    /\ previous_button = None
    /\ init_requested = FALSE
    /\ delivery_order_received = FALSE
    /\ customer_confirm = FALSE
    /\ order_in_progress = FALSE
    /\ delivery_location = Unset
    /\ navigator_finished = FALSE
    /\ navigator_feed = Unset
    /\ assigned = {}
    /\ last_blink_led = 2
    /\ t = 2
    /\ tick_state = Unset
    /\ pc = "idle"
    /\ goal_location = Unset
    /\ b_pc = "idle"
    /\ d_pc = "idle"
    /\ o_pc = "idle" /\ o_goal = Unset
    /\ nav_result = "none"
    /\ server_goal = [success |-> FALSE, message |-> "no goal"]
    /\ led1 = Unset /\ led2 = Unset /\ localize_sent = 0
    /\ tick_writes = <<>> /\ tick_reqs = <<>>
    /\ episode_reqs = 0
\* check_button_event (utils): a button fired when its input rose between the
\* previous sample and this one.
check_button_event(prev, curr) ==
    [green |-> ~prev.green /\ curr.green, red |-> ~prev.red /\ curr.red]

\* The order action server's current goal: none yet, accepted and active, or
\* ended by set_succeeded with one of the two results the manager builds.
NoGoal ==
    [success |-> FALSE, message |-> "no goal"]

Active ==
    [success |-> FALSE, message |-> "active"]

RejectResult ==
    [success |-> FALSE, message |-> RejectMessage]

DeliveryResult ==
    [success |-> FALSE, message |-> SuccessMessage]

\* ------------------------------------------------------------ control thread
\* spin, line 162: read _current_state and call its handler.
Dispatch ==
    /\ pc = "idle"
    /\ tick_state' = current_state
    /\ pc' = CASE current_state = STATE_INITIALIZATION -> "init_latch"
               [] current_state = STATE_GOTO_KITCHEN -> "gk_check"
               [] current_state = STATE_AT_KITCHEN -> "ak_check"
               [] current_state = STATE_GOTO_TABLE -> "gt_check"
               [] current_state = STATE_AT_TABLE -> "at_check"
               [] current_state = STATE_ON_ERROR -> "on_error"
    /\ UNCHANGED <<current_state, initialized, previous_button,
                   init_requested, delivery_order_received, customer_confirm,
                   order_in_progress, delivery_location, navigator_finished,
                   navigator_feed, last_blink_led, assigned, t,
                   goal_location, b_pc, d_pc, o_pc, o_goal, nav_result,
                   server_goal, led1, led2, localize_sent, tick_writes,
                   tick_reqs, episode_reqs>>

\* _request_navigator, lines 186-196: build the goal and send it.
RequestNavigatorSend(location, next) ==
    /\ nav_result' = "pending"
    /\ tick_reqs' = Append(tick_reqs, location)
    /\ pc' = next

\* _request_navigator, line 197.
RequestNavigatorFinished(next) ==
    /\ navigator_finished' = FALSE
    /\ assigned' = assigned \cup {"_navigator_finished"}
    /\ pc' = next

\* A handler's assignment to _current_state.
HandlerSetState(new) ==
    /\ current_state' = new
    /\ tick_writes' = Append(tick_writes, new)

\* _state_initialization, lines 216-221.
InitLatch ==
    /\ pc = "init_latch"
    /\ IF ~init_requested
       THEN /\ initialized' = FALSE
            /\ localize_sent' = Sat(localize_sent)
            /\ init_requested' = TRUE
       ELSE UNCHANGED <<initialized, localize_sent, init_requested>>
    /\ pc' = "init_check"
    /\ UNCHANGED <<current_state, previous_button, delivery_order_received,
                   customer_confirm, order_in_progress, delivery_location,
                   navigator_finished, navigator_feed, last_blink_led,
                   assigned, t, tick_state, goal_location, b_pc, d_pc, o_pc,
                   o_goal, nav_result, server_goal, led1, led2, tick_writes,
                   tick_reqs, episode_reqs>>

\* _state_initialization, line 223.
InitCheck ==
    /\ pc = "init_check"
    /\ pc' = IF initialized THEN "init_send" ELSE "rate"
    /\ UNCHANGED <<current_state, initialized, previous_button,
                   init_requested, delivery_order_received, customer_confirm,
                   order_in_progress, delivery_location, navigator_finished,
                   navigator_feed, last_blink_led, assigned, t, tick_state,
                   goal_location, b_pc, d_pc, o_pc, o_goal, nav_result,
                   server_goal, led1, led2, localize_sent, tick_writes,
                   tick_reqs, episode_reqs>>

\* _state_initialization, line 227.
InitSend ==
    /\ pc = "init_send"
    /\ RequestNavigatorSend(kitchen_location, "init_finished")
    /\ episode_reqs' = Sat(episode_reqs)
    /\ UNCHANGED <<current_state, initialized, previous_button,
                   init_requested, delivery_order_received, customer_confirm,
                   order_in_progress, delivery_location, navigator_finished,
                   navigator_feed, last_blink_led, assigned, t, tick_state,
                   goal_location, b_pc, d_pc, o_pc, o_goal, server_goal,
                   led1, led2, localize_sent, tick_writes>>

InitFinished ==
    /\ pc = "init_finished"
    /\ RequestNavigatorFinished("init_state")
    /\ UNCHANGED <<current_state, initialized, previous_button,
                   init_requested, delivery_order_received, customer_confirm,
                   order_in_progress, delivery_location, navigator_feed,
                   last_blink_led, t, tick_state, goal_location, b_pc, d_pc,
                   o_pc, o_goal, nav_result, server_goal, led1, led2,
                   localize_sent, tick_writes, tick_reqs, episode_reqs>>

\* Variant of lines 229-230 without the assignment to _current_state.
InitState_stays ==
    /\ pc = "init_state"
    /\ init_requested' = FALSE
    /\ pc' = "rate"
    /\ UNCHANGED <<current_state, initialized, previous_button,
                   delivery_order_received, customer_confirm,
                   order_in_progress, delivery_location, navigator_finished,
                   navigator_feed, last_blink_led, assigned, t, tick_state,
                   goal_location, b_pc, d_pc, o_pc, o_goal, nav_result,
                   server_goal, led1, led2, localize_sent, tick_writes,
                   tick_reqs, episode_reqs>>

\* _state_initialization, lines 229-230.
InitState ==
    /\ pc = "init_state"
    /\ HandlerSetState(STATE_GOTO_KITCHEN)
    /\ init_requested' = FALSE
    /\ pc' = "rate"
    /\ UNCHANGED <<initialized, previous_button, delivery_order_received,
                   customer_confirm, order_in_progress, delivery_location,
                   navigator_finished, navigator_feed, last_blink_led,
                   assigned, t, tick_state, goal_location, b_pc, d_pc, o_pc,
                   o_goal, nav_result, server_goal, led1, led2,
                   localize_sent, tick_reqs, episode_reqs>>

\* _state_goto_kitchen, line 234.
GotoKitchenCheck ==
    /\ pc = "gk_check"
    /\ pc' = IF "_navigator_finished" \notin assigned THEN "crashed"
             ELSE IF navigator_finished THEN "gk_state" ELSE "rate"
    /\ UNCHANGED <<current_state, initialized, previous_button,
                   init_requested, delivery_order_received, customer_confirm,
                   order_in_progress, delivery_location, navigator_finished,
                   navigator_feed, last_blink_led, assigned, t, tick_state,
                   goal_location, b_pc, d_pc, o_pc, o_goal, nav_result,
                   server_goal, led1, led2, localize_sent, tick_writes,
                   tick_reqs, episode_reqs>>

\* _state_goto_kitchen, line 236.
GotoKitchenState ==
    /\ pc = "gk_state"
    /\ HandlerSetState(STATE_AT_KITCHEN)
    /\ pc' = "gk_report"
    /\ UNCHANGED <<initialized, previous_button, init_requested,
                   delivery_order_received, customer_confirm,
                   order_in_progress, delivery_location, navigator_finished,
                   navigator_feed, last_blink_led, assigned, t, tick_state,
                   goal_location, b_pc, d_pc, o_pc, o_goal, nav_result,
                   server_goal, led1, led2, localize_sent, tick_reqs,
                   episode_reqs>>

\* _state_goto_kitchen, lines 237-245.
GotoKitchenReport ==
    /\ pc = "gk_report"
    /\ IF order_in_progress
       THEN /\ order_in_progress' = FALSE
            /\ server_goal' = IF server_goal = Active THEN DeliveryResult
                             ELSE server_goal
       ELSE UNCHANGED <<order_in_progress, server_goal>>
    /\ pc' = "rate"
    /\ UNCHANGED <<current_state, initialized, previous_button,
                   init_requested, delivery_order_received, customer_confirm,
                   delivery_location, navigator_finished, navigator_feed,
                   last_blink_led, assigned, t, tick_state, goal_location,
                   b_pc, d_pc, o_pc, o_goal, nav_result, led1, led2,
                   localize_sent, tick_writes, tick_reqs, episode_reqs>>

\* _state_at_kitchen, line 249.
AtKitchenCheck ==
    /\ pc = "ak_check"
    /\ pc' = IF delivery_order_received THEN "ak_clear" ELSE "rate"
    /\ UNCHANGED <<current_state, initialized, previous_button,
                   init_requested, delivery_order_received, customer_confirm,
                   order_in_progress, delivery_location, navigator_finished,
                   navigator_feed, last_blink_led, assigned, t, tick_state,
                   goal_location, b_pc, d_pc, o_pc, o_goal, nav_result,
                   server_goal, led1, led2, localize_sent, tick_writes,
                   tick_reqs, episode_reqs>>

\* _state_at_kitchen, lines 250-251.
AtKitchenClear ==
    /\ pc = "ak_clear"
    /\ delivery_order_received' = FALSE
    /\ order_in_progress' = TRUE
    /\ pc' = "ak_read"
    /\ UNCHANGED <<current_state, initialized, previous_button,
                   init_requested, customer_confirm, delivery_location,
                   navigator_finished, navigator_feed, last_blink_led,
                   assigned, t, tick_state, goal_location, b_pc, d_pc, o_pc,
                   o_goal, nav_result, server_goal, led1, led2,
                   localize_sent, tick_writes, tick_reqs, episode_reqs>>

\* _state_at_kitchen, line 252: the argument self._delivery_location is
\* evaluated before _request_navigator is entered.
AtKitchenRead ==
    /\ pc = "ak_read"
    /\ IF "_delivery_location" \notin assigned
       THEN /\ pc' = "crashed"
            /\ UNCHANGED goal_location
       ELSE /\ goal_location' = delivery_location
            /\ pc' = "ak_send"
    /\ UNCHANGED <<current_state, initialized, previous_button,
                   init_requested, delivery_order_received, customer_confirm,
                   order_in_progress, delivery_location, navigator_finished,
                   navigator_feed, last_blink_led, assigned, t, tick_state,
                   b_pc, d_pc, o_pc, o_goal, nav_result, server_goal, led1,
                   led2, localize_sent, tick_writes, tick_reqs, episode_reqs>>

\* _request_navigator called from line 252, lines 186-196: the goal carries
\* the location read before the call.
AtKitchenSend ==
    /\ pc = "ak_send"
    /\ RequestNavigatorSend(goal_location, "ak_finished")
    /\ UNCHANGED <<current_state, initialized, previous_button,
                   init_requested, delivery_order_received, customer_confirm,
                   order_in_progress, delivery_location, navigator_finished,
                   navigator_feed, last_blink_led, assigned, t, tick_state,
                   goal_location, b_pc, d_pc, o_pc, o_goal, server_goal,
                   led1, led2, localize_sent, tick_writes, episode_reqs>>

\* _request_navigator called from line 252, line 197 and the return.
AtKitchenFinished ==
    /\ pc = "ak_finished"
    /\ RequestNavigatorFinished("ak_state")
    /\ goal_location' = Unset
    /\ UNCHANGED <<current_state, initialized, previous_button,
                   init_requested, delivery_order_received, customer_confirm,
                   order_in_progress, delivery_location, navigator_feed,
                   last_blink_led, t, tick_state, b_pc, d_pc, o_pc, o_goal,
                   nav_result, server_goal, led1, led2, localize_sent,
                   tick_writes, tick_reqs, episode_reqs>>

\* _state_at_kitchen, lines 253-255.
AtKitchenState ==
    /\ pc = "ak_state"
    /\ HandlerSetState(STATE_GOTO_TABLE)
    /\ pc' = "rate"
    /\ UNCHANGED <<initialized, previous_button, init_requested,
                   delivery_order_received, customer_confirm,
                   order_in_progress, delivery_location, navigator_finished,
                   navigator_feed, last_blink_led, assigned, t, tick_state,
                   goal_location, b_pc, d_pc, o_pc, o_goal, nav_result,
                   server_goal, led1, led2, localize_sent, tick_reqs,
                   episode_reqs>>

\* _state_goto_table, line 259.
GotoTableCheck ==
    /\ pc = "gt_check"
    /\ pc' = IF "_navigator_finished" \notin assigned THEN "crashed"
             ELSE IF navigator_finished THEN "gt_state" ELSE "rate"
    /\ UNCHANGED <<current_state, initialized, previous_button,
                   init_requested, delivery_order_received, customer_confirm,
                   order_in_progress, delivery_location, navigator_finished,
                   navigator_feed, last_blink_led, assigned, t, tick_state,
                   goal_location, b_pc, d_pc, o_pc, o_goal, nav_result,
                   server_goal, led1, led2, localize_sent, tick_writes,
                   tick_reqs, episode_reqs>>

\* _state_goto_table, lines 261-262.
GotoTableState ==
    /\ pc = "gt_state"
    /\ HandlerSetState(STATE_AT_TABLE)
    /\ pc' = "rate"
    /\ UNCHANGED <<initialized, previous_button, init_requested,
                   delivery_order_received, customer_confirm,
                   order_in_progress, delivery_location, navigator_finished,
                   navigator_feed, last_blink_led, assigned, t, tick_state,
                   goal_location, b_pc, d_pc, o_pc, o_goal, nav_result,
                   server_goal, led1, led2, localize_sent, tick_reqs,
                   episode_reqs>>

\* _state_at_table, line 267.
AtTableCheck ==
    /\ pc = "at_check"
    /\ pc' = IF customer_confirm THEN "at_clear" ELSE "rate"
    /\ UNCHANGED <<current_state, initialized, previous_button,
                   init_requested, delivery_order_received, customer_confirm,
                   order_in_progress, delivery_location, navigator_finished,
                   navigator_feed, last_blink_led, assigned, t, tick_state,
                   goal_location, b_pc, d_pc, o_pc, o_goal, nav_result,
                   server_goal, led1, led2, localize_sent, tick_writes,
                   tick_reqs, episode_reqs>>

\* _state_at_table, lines 268-270.
AtTableClear ==
    /\ pc = "at_clear"
    /\ customer_confirm' = FALSE
    /\ pc' = "at_send"
    /\ UNCHANGED <<current_state, initialized, previous_button,
                   init_requested, delivery_order_received,
                   order_in_progress, delivery_location, navigator_finished,
                   navigator_feed, last_blink_led, assigned, t, tick_state,
                   goal_location, b_pc, d_pc, o_pc, o_goal, nav_result,
                   server_goal, led1, led2, localize_sent, tick_writes,
                   tick_reqs, episode_reqs>>

\* _state_at_table, line 271.
AtTableSend ==
    /\ pc = "at_send"
    /\ RequestNavigatorSend(kitchen_location, "at_finished")
    /\ UNCHANGED <<current_state, initialized, previous_button,
                   init_requested, delivery_order_received, customer_confirm,
                   order_in_progress, delivery_location, navigator_finished,
                   navigator_feed, last_blink_led, assigned, t, tick_state,
                   goal_location, b_pc, d_pc, o_pc, o_goal, server_goal,
                   led1, led2, localize_sent, tick_writes, episode_reqs>>

AtTableFinished ==
    /\ pc = "at_finished"
    /\ RequestNavigatorFinished("at_state")
    /\ UNCHANGED <<current_state, initialized, previous_button,
                   init_requested, delivery_order_received, customer_confirm,
                   order_in_progress, delivery_location, navigator_feed,
                   last_blink_led, t, tick_state, goal_location, b_pc, d_pc,
                   o_pc, o_goal, nav_result, server_goal, led1, led2,
                   localize_sent, tick_writes, tick_reqs, episode_reqs>>

\* _state_at_table, line 273.
AtTableState ==
    /\ pc = "at_state"
    /\ HandlerSetState(STATE_GOTO_KITCHEN)
    /\ pc' = "rate"
    /\ UNCHANGED <<initialized, previous_button, init_requested,
                   delivery_order_received, customer_confirm,
                   order_in_progress, delivery_location, navigator_finished,
                   navigator_feed, last_blink_led, assigned, t, tick_state,
                   goal_location, b_pc, d_pc, o_pc, o_goal, nav_result,
                   server_goal, led1, led2, localize_sent, tick_reqs,
                   episode_reqs>>

\* _state_on_error: pass.
StateOnError ==
    /\ pc = "on_error"
    /\ pc' = "rate"
    /\ UNCHANGED <<current_state, initialized, previous_button,
                   init_requested, delivery_order_received, customer_confirm,
                   order_in_progress, delivery_location, navigator_finished,
                   navigator_feed, last_blink_led, assigned, t, tick_state,
                   goal_location, b_pc, d_pc, o_pc, o_goal, nav_result,
                   server_goal, led1, led2, localize_sent, tick_writes,
                   tick_reqs, episode_reqs>>

\* spin, lines 163-165: every SpinPeriod-th cycle emits status and LEDs.
SpinRate ==
    /\ pc = "rate"
    /\ t' = (t % SpinPeriod) + 1
    /\ pc' = IF t' = 1 THEN "logging" ELSE "sleep"
    /\ UNCHANGED <<current_state, initialized, previous_button,
                   init_requested, delivery_order_received, customer_confirm,
                   order_in_progress, delivery_location, navigator_finished,
                   navigator_feed, last_blink_led, assigned, tick_state,
                   goal_location, b_pc, d_pc, o_pc, o_goal, nav_result,
                   server_goal, led1, led2, localize_sent, tick_writes,
                   tick_reqs, episode_reqs>>

\* _logging: the feedback text reads _navigator_feed while an order is in
\* progress.
Logging ==
    /\ pc = "logging"
    /\ pc' = IF order_in_progress /\ "_navigator_feed" \notin assigned
             THEN "crashed" ELSE "blink"
    /\ UNCHANGED <<current_state, initialized, previous_button,
                   init_requested, delivery_order_received, customer_confirm,
                   order_in_progress, delivery_location, navigator_finished,
                   navigator_feed, last_blink_led, assigned, t, tick_state,
                   goal_location, b_pc, d_pc, o_pc, o_goal, nav_result,
                   server_goal, led1, led2, localize_sent, tick_writes,
                   tick_reqs, episode_reqs>>

\* Variant of _blink_leds that keeps the green pair in every state.
BlinkLeds_alwaysGreen ==
    /\ pc = "blink"
    /\ last_blink_led' = (last_blink_led % BlinkPhases) + 1
    /\ led1' = IF last_blink_led' = 1 THEN off_led ELSE green_led
    /\ led2' = IF last_blink_led' = 1 THEN green_led ELSE off_led
    /\ pc' = "sleep"
    /\ UNCHANGED <<current_state, initialized, previous_button,
                   init_requested, delivery_order_received, customer_confirm,
                   order_in_progress, delivery_location, navigator_finished,
                   navigator_feed, assigned, t, tick_state, goal_location,
                   b_pc, d_pc, o_pc, o_goal, nav_result, server_goal,
                   localize_sent, tick_writes, tick_reqs, episode_reqs>>

\* _blink_leds.
BlinkLeds ==
    /\ pc = "blink"
    /\ last_blink_led' = (last_blink_led % BlinkPhases) + 1
    /\ LET colour == IF current_state = STATE_ON_ERROR THEN red_led ELSE green_led
       IN /\ led1' = IF last_blink_led' = 1 THEN off_led ELSE colour
          /\ led2' = IF last_blink_led' = 1 THEN colour ELSE off_led
    /\ pc' = "sleep"
    /\ UNCHANGED <<current_state, initialized, previous_button,
                   init_requested, delivery_order_received, customer_confirm,
                   order_in_progress, delivery_location, navigator_finished,
                   navigator_feed, assigned, t, tick_state, goal_location,
                   b_pc, d_pc, o_pc, o_goal, nav_result, server_goal,
                   localize_sent, tick_writes, tick_reqs, episode_reqs>>

\* spin, line 168: r.sleep() ends the cycle.  The counts kept for one
\* Initialization episode end with the cycle that leaves INITIALIZATION.
SpinSleep ==
    /\ pc = "sleep"
    /\ pc' = "idle"
    /\ tick_state' = Unset
    /\ tick_writes' = <<>>
    /\ tick_reqs' = <<>>
    /\ IF current_state # STATE_INITIALIZATION
       THEN episode_reqs' = 0 /\ localize_sent' = 0
       ELSE UNCHANGED <<episode_reqs, localize_sent>>
    /\ UNCHANGED <<current_state, initialized, previous_button,
                   init_requested, delivery_order_received, customer_confirm,
                   order_in_progress, delivery_location, navigator_finished,
                   navigator_feed, last_blink_led, assigned, t,
                   goal_location, b_pc, d_pc, o_pc, o_goal, nav_result,
                   server_goal, led1, led2>>

\* ---------------------------------------------------------- callback threads
\* Variant of _process_button that diffs the first sample against a sample
\* with both buttons released.
ProcessButton_firstSampleCounts(msg) ==
    /\ b_pc = "idle"
    /\ previous_button' = <<msg>>
    /\ LET prev == IF previous_button = None
                   THEN [green |-> FALSE, red |-> FALSE]
                   ELSE previous_button[1]
       IN IF check_button_event(prev, msg).green
          THEN b_pc' = IF current_state = STATE_ON_ERROR
                       THEN "set_init" ELSE "check_table"
          ELSE UNCHANGED b_pc
    /\ UNCHANGED <<current_state, initialized, init_requested,
                   delivery_order_received, customer_confirm,
                   order_in_progress, delivery_location, navigator_finished,
                   navigator_feed, last_blink_led, assigned, t, tick_state,
                   pc, goal_location, d_pc, o_pc, o_goal, nav_result,
                   server_goal, led1, led2, localize_sent, tick_writes,
                   tick_reqs, episode_reqs>>

\* _process_button, lines 113-123 and 129: the first sample only fills
\* _previous_button; later samples are diffed against it.  Only this thread
\* uses _previous_button, so its update at line 129 is taken here, with the
\* last statement that reads it.
ProcessButton(msg) ==
    /\ b_pc = "idle"
    /\ previous_button' = <<msg>>
    /\ IF previous_button = None
       THEN UNCHANGED b_pc
       ELSE IF check_button_event(previous_button[1], msg).green
            THEN b_pc' = IF current_state = STATE_ON_ERROR
                         THEN "set_init" ELSE "check_table"
            ELSE UNCHANGED b_pc
    /\ UNCHANGED <<current_state, initialized, init_requested,
                   delivery_order_received, customer_confirm,
                   order_in_progress, delivery_location, navigator_finished,
                   navigator_feed, last_blink_led, assigned, t, tick_state,
                   pc, goal_location, d_pc, o_pc, o_goal, nav_result,
                   server_goal, led1, led2, localize_sent, tick_writes,
                   tick_reqs, episode_reqs>>

\* _process_button, line 124.
ButtonSetInit ==
    /\ b_pc = "set_init"
    /\ current_state' = STATE_INITIALIZATION
    /\ episode_reqs' = 0
    /\ localize_sent' = 0
    /\ b_pc' = "check_table"
    /\ UNCHANGED <<initialized, previous_button, init_requested,
                   delivery_order_received, customer_confirm,
                   order_in_progress, delivery_location, navigator_finished,
                   navigator_feed, last_blink_led, assigned, t, tick_state,
                   pc, goal_location, d_pc, o_pc, o_goal, nav_result,
                   server_goal, led1, led2, tick_writes, tick_reqs>>

\* _process_button, line 126.
ButtonCheckTable ==
    /\ b_pc = "check_table"
    /\ b_pc' = IF current_state = STATE_AT_TABLE THEN "set_confirm" ELSE "idle"
    /\ UNCHANGED <<current_state, initialized, previous_button,
                   init_requested, delivery_order_received, customer_confirm,
                   order_in_progress, delivery_location, navigator_finished,
                   navigator_feed, last_blink_led, assigned, t, tick_state,
                   pc, goal_location, d_pc, o_pc, o_goal, nav_result,
                   server_goal, led1, led2, localize_sent, tick_writes,
                   tick_reqs, episode_reqs>>

\* _process_button, line 127.
ButtonSetConfirm ==
    /\ b_pc = "set_confirm"
    /\ customer_confirm' = TRUE
    /\ b_pc' = "idle"
    /\ UNCHANGED <<current_state, initialized, previous_button,
                   init_requested, delivery_order_received,
                   order_in_progress, delivery_location, navigator_finished,
                   navigator_feed, last_blink_led, assigned, t, tick_state,
                   pc, goal_location, d_pc, o_pc, o_goal, nav_result,
                   server_goal, led1, led2, localize_sent, tick_writes,
                   tick_reqs, episode_reqs>>

\* _process_localized.
ProcessLocalized ==
    /\ initialized' = TRUE
    /\ UNCHANGED <<current_state, previous_button, init_requested,
                   delivery_order_received, customer_confirm,
                   order_in_progress, delivery_location, navigator_finished,
                   navigator_feed, last_blink_led, assigned, t, tick_state,
                   pc, goal_location, b_pc, d_pc, o_pc, o_goal, nav_result,
                   server_goal, led1, led2, localize_sent, tick_writes,
                   tick_reqs, episode_reqs>>

\* _process_deliver_order, lines 135-138: a goal has arrived at the action
\* server; the callback reads _current_state and takes one of its branches.
\* The location of the goal is read only in the accepting branch.
ProcessDeliverOrder(location) ==
    /\ o_pc = "idle"
    /\ IF current_state # STATE_AT_KITCHEN
       THEN /\ o_pc' = "reject_accept"
            /\ UNCHANGED o_goal
       ELSE /\ o_pc' = "accept"
            /\ o_goal' = location
    /\ UNCHANGED <<current_state, initialized, previous_button,
                   init_requested, delivery_order_received, customer_confirm,
                   order_in_progress, delivery_location, navigator_finished,
                   navigator_feed, last_blink_led, assigned, t, tick_state,
                   pc, goal_location, b_pc, d_pc, nav_result, server_goal,
                   led1, led2, localize_sent, tick_writes, tick_reqs,
                   episode_reqs>>

\* _process_deliver_order, line 141: accept_new_goal makes the new goal the
\* server's current goal.
OrderRejectAccept ==
    /\ o_pc = "reject_accept"
    /\ server_goal' = Active
    /\ o_pc' = "reject"
    /\ UNCHANGED <<current_state, initialized, previous_button,
                   init_requested, delivery_order_received, customer_confirm,
                   order_in_progress, delivery_location, navigator_finished,
                   navigator_feed, last_blink_led, assigned, t, tick_state,
                   pc, goal_location, b_pc, d_pc, o_goal, nav_result, led1,
                   led2, localize_sent, tick_writes, tick_reqs, episode_reqs>>

\* Variant of lines 142-145 that goes on to line 150: a rejected goal is
\* marked as received too.
OrderReject_fallthrough ==
    /\ o_pc = "reject"
    /\ server_goal' = IF server_goal = Active THEN RejectResult ELSE server_goal
    /\ o_pc' = "received"
    /\ UNCHANGED <<current_state, initialized, previous_button,
                   init_requested, delivery_order_received, customer_confirm,
                   order_in_progress, delivery_location, navigator_finished,
                   navigator_feed, last_blink_led, assigned, t, tick_state,
                   pc, goal_location, b_pc, d_pc, o_goal, nav_result, led1,
                   led2, localize_sent, tick_writes, tick_reqs, episode_reqs>>

\* _process_deliver_order, lines 142-145: set_succeeded ends the current
\* goal with the rejecting result if it is still active, and does nothing to
\* a goal that has already been ended.
OrderReject ==
    /\ o_pc = "reject"
    /\ server_goal' = IF server_goal = Active THEN RejectResult ELSE server_goal
    /\ o_pc' = "idle"
    /\ UNCHANGED <<current_state, initialized, previous_button,
                   init_requested, delivery_order_received, customer_confirm,
                   order_in_progress, delivery_location, navigator_finished,
                   navigator_feed, last_blink_led, assigned, t, tick_state,
                   pc, goal_location, b_pc, d_pc, o_goal, nav_result, led1,
                   led2, localize_sent, tick_writes, tick_reqs, episode_reqs>>

\* _process_deliver_order, lines 147-148: accept_new_goal.
OrderAccept ==
    /\ o_pc = "accept"
    /\ server_goal' = Active
    /\ o_pc' = "location"
    /\ UNCHANGED <<current_state, initialized, previous_button,
                   init_requested, delivery_order_received, customer_confirm,
                   order_in_progress, delivery_location, navigator_finished,
                   navigator_feed, last_blink_led, assigned, t, tick_state,
                   pc, goal_location, b_pc, d_pc, o_goal, nav_result, led1,
                   led2, localize_sent, tick_writes, tick_reqs, episode_reqs>>

\* _process_deliver_order, line 149.
OrderSetLocation ==
    /\ o_pc = "location"
    /\ delivery_location' = o_goal
    /\ assigned' = assigned \cup {"_delivery_location"}
    /\ o_pc' = "received"
    /\ UNCHANGED <<current_state, initialized, previous_button,
                   init_requested, delivery_order_received, customer_confirm,
                   order_in_progress, navigator_finished, navigator_feed,
                   last_blink_led, t, tick_state, pc, goal_location, b_pc,
                   d_pc, o_goal, nav_result, server_goal, led1, led2,
                   localize_sent, tick_writes, tick_reqs, episode_reqs>>

\* _process_deliver_order, line 150.
OrderSetReceived ==
    /\ o_pc = "received"
    /\ delivery_order_received' = TRUE
    /\ o_goal' = Unset
    /\ o_pc' = "idle"
    /\ UNCHANGED <<current_state, initialized, previous_button,
                   init_requested, customer_confirm, order_in_progress,
                   delivery_location, navigator_finished, navigator_feed,
                   last_blink_led, assigned, t, tick_state, pc,
                   goal_location, b_pc, d_pc, nav_result, server_goal, led1,
                   led2, localize_sent, tick_writes, tick_reqs, episode_reqs>>

\* _navigator_done, lines 200-203: the result of the pending goal arrives
\* and is logged; a failure plays its sound before line 204.
NavigatorDone(success) ==
    /\ d_pc = "idle"
    /\ nav_result = "pending"
    /\ nav_result' = IF success THEN "success" ELSE "failure"
    /\ d_pc' = IF success THEN "finished" ELSE "error"
    /\ UNCHANGED <<current_state, initialized, previous_button,
                   init_requested, delivery_order_received, customer_confirm,
                   order_in_progress, delivery_location, navigator_finished,
                   navigator_feed, last_blink_led, assigned, t, tick_state,
                   pc, goal_location, b_pc, o_pc, o_goal, server_goal, led1,
                   led2, localize_sent, tick_writes, tick_reqs, episode_reqs>>

\* _navigator_done, line 204.
NavigatorDoneError ==
    /\ d_pc = "error"
    /\ current_state' = STATE_ON_ERROR
    /\ d_pc' = "finished"
    /\ UNCHANGED <<initialized, previous_button, init_requested,
                   delivery_order_received, customer_confirm,
                   order_in_progress, delivery_location, navigator_finished,
                   navigator_feed, last_blink_led, assigned, t, tick_state,
                   pc, goal_location, b_pc, o_pc, o_goal, nav_result,
                   server_goal, led1, led2, localize_sent, tick_writes,
                   tick_reqs, episode_reqs>>

\* _navigator_done, line 205.
NavigatorDoneFinished ==
    /\ d_pc = "finished"
    /\ navigator_finished' = TRUE
    /\ assigned' = assigned \cup {"_navigator_finished"}
    /\ d_pc' = "idle"
    /\ UNCHANGED <<current_state, initialized, previous_button,
                   init_requested, delivery_order_received, customer_confirm,
                   order_in_progress, delivery_location, navigator_feed,
                   last_blink_led, t, tick_state, pc, goal_location, b_pc,
                   o_pc, o_goal, nav_result, server_goal, led1, led2,
                   localize_sent, tick_writes, tick_reqs, episode_reqs>>

\* Variant of _navigator_feedback in which a retry notification also ends
\* the navigation.
NavigatorFeedback_retryFinishes(retry) ==
    /\ nav_result = "pending"
    /\ navigator_feed' = "Distance : d, Message : m"
    /\ assigned' = assigned \cup {"_navigator_feed"}
    /\ navigator_finished' = (navigator_finished \/ retry)
    /\ UNCHANGED <<current_state, initialized, previous_button,
                   init_requested, delivery_order_received, customer_confirm,
                   order_in_progress, delivery_location, last_blink_led, t,
                   tick_state, pc, goal_location, b_pc, d_pc, o_pc, o_goal,
                   nav_result, server_goal, led1, led2, localize_sent,
                   tick_writes, tick_reqs, episode_reqs>>

\* _navigator_feedback.
NavigatorFeedback(retry) ==
    /\ nav_result = "pending"
    /\ navigator_feed' = "Distance : d, Message : m"
    /\ assigned' = assigned \cup {"_navigator_feed"}
    /\ UNCHANGED <<current_state, initialized, previous_button,
                   init_requested, delivery_order_received, customer_confirm,
                   order_in_progress, delivery_location, navigator_finished,
                   last_blink_led, t, tick_state, pc, goal_location, b_pc,
                   d_pc, o_pc, o_goal, nav_result, server_goal, led1, led2,
                   localize_sent, tick_writes, tick_reqs, episode_reqs>>


\* The statements of the state handlers, run by the control thread.
Handlers ==
    \/ Dispatch
    \/ InitLatch \/ InitCheck \/ InitSend \/ InitFinished \/ InitState
    \/ GotoKitchenCheck \/ GotoKitchenState \/ GotoKitchenReport
    \/ AtKitchenCheck \/ AtKitchenClear \/ AtKitchenRead \/ AtKitchenSend
    \/ AtKitchenFinished \/ AtKitchenState
    \/ GotoTableCheck \/ GotoTableState
    \/ AtTableCheck \/ AtTableClear \/ AtTableSend \/ AtTableFinished
    \/ AtTableState
    \/ StateOnError

\* The statements of the callbacks, each on its own thread.
Callback ==
    \/ \E msg \in ButtonMsgs : ProcessButton(msg)
    \/ ButtonSetInit \/ ButtonCheckTable \/ ButtonSetConfirm
    \/ ProcessLocalized
    \/ \E location \in Tables : ProcessDeliverOrder(location)
    \/ OrderRejectAccept \/ OrderReject
    \/ OrderAccept \/ OrderSetLocation \/ OrderSetReceived
    \/ \E success \in BOOLEAN : NavigatorDone(success)
    \/ NavigatorDoneError \/ NavigatorDoneFinished
    \/ \E retry \in BOOLEAN : NavigatorFeedback(retry)

\* The rest of a cycle of spin after the handler returns (lines 163-168).
Spin == SpinRate \/ Logging \/ BlinkLeds \/ SpinSleep

\* The control thread and the callbacks, with every input the callbacks can
\* receive.  SpecNoFailure and SpecFailure below restrict what the
\* environment sends and nothing else, so each of their behaviours is a
\* behaviour of Spec.
Next == Handlers \/ Spin \/ Callback

Spec == Init /\ [][Next]_vars

\* The runs in which every navigation request succeeds: the scenario of an
\* undisturbed delivery round trip.  The control thread and the other
\* callbacks are as in Next.
NextNoFailure ==
    \/ Handlers
    \/ Spin
    \/ \E msg \in ButtonMsgs : ProcessButton(msg)
    \/ ButtonSetInit \/ ButtonCheckTable \/ ButtonSetConfirm
    \/ ProcessLocalized
    \/ \E location \in Tables : ProcessDeliverOrder(location)
    \/ OrderRejectAccept \/ OrderReject
    \/ OrderAccept \/ OrderSetLocation \/ OrderSetReceived
    \/ NavigatorDone(TRUE) \/ NavigatorDoneFinished
    \/ \E retry \in BOOLEAN : NavigatorFeedback(retry)

SpecNoFailure == Init /\ [][NextNoFailure]_vars

\* The runs in which navigation requests may fail, the navigation service
\* sends no feedback, the red button is never pressed and every order is for
\* the same table.  The control thread and the other callbacks are as in
\* Next.
NextFailure ==
    \/ Handlers
    \/ Spin
    \/ \E msg \in GreenMsgs : ProcessButton(msg)
    \/ ButtonSetInit \/ ButtonCheckTable \/ ButtonSetConfirm
    \/ ProcessLocalized
    \/ \E location \in OneTable : ProcessDeliverOrder(location)
    \/ OrderRejectAccept \/ OrderReject
    \/ OrderAccept \/ OrderSetLocation \/ OrderSetReceived
    \/ \E success \in BOOLEAN : NavigatorDone(success)
    \/ NavigatorDoneError \/ NavigatorDoneFinished

SpecFailure == Init /\ [][NextFailure]_vars

TypeOK ==
    /\ current_state \in States
    /\ assigned \subseteq LateFields
    /\ delivery_location \in Tables \cup {Unset}
    /\ nav_result \in {"none", "pending", "success", "failure"}
    /\ server_goal \in {NoGoal, Active, RejectResult, DeliveryResult}
    /\ t \in 1..SpinPeriod /\ last_blink_led \in 1..BlinkPhases

\* A step of the control thread moves pc; a step of a callback leaves it.
ControlStep == pc' # pc
\* _process_button line 124 is being executed.
ButtonRecovers == b_pc = "set_init" /\ b_pc' = "check_table"
\* _process_deliver_order is entered, or takes its accepting branch.
OrderEnters == o_pc = "idle" /\ o_pc' # "idle"
OrderAccepted == o_pc = "idle" /\ o_pc' = "accept"
\* A step of the rejecting branch of _process_deliver_order (lines 139-145).
OrderRejectStep == o_pc \in {"reject_accept", "reject"} /\ o_pc' # o_pc
\* An order has been accepted and its delivery has not been reported yet.
OrderOpen == delivery_order_received \/ order_in_progress

\* ------------------------------------------------------------------------
\* C1: once the done callback of a failed request has returned, the machine
\* is in ON_ERROR at the start of every cycle until the operator's green
\* edge re-enters INITIALIZATION (which sends the next request); no handler
\* statement interleaved with the notification undoes it.
C1_FailureLeadsToError ==
    (pc = "idle" /\ d_pc = "idle" /\ nav_result = "failure")
        => current_state \in {STATE_ON_ERROR, STATE_INITIALIZATION}

\* ------------------------------------------------------------------------
\* C2: only steps of the control thread change _current_state; no callback
\* does.
C2_OnlyTickWritesState ==
    [][current_state' # current_state => ControlStep]_vars

\* ------------------------------------------------------------------------
\* C3: while an accepted order is pending or in progress, no further order
\* is accepted and the stored destination does not change.
C3_SecondOrderRejected ==
    [][OrderOpen => (~OrderAccepted /\ delivery_location' = delivery_location)]_vars

\* ------------------------------------------------------------------------
\* C4: an order that arrives while the state is not AT_KITCHEN takes the
\* rejecting branch; no step of that branch changes _delivery_order_received
\* or _delivery_location; and when the callback returns the goal has been
\* ended with success False: by its own set_succeeded (line 145) with the
\* rejecting result if the goal was still active.
C4_RejectedOutsideKitchen ==
    /\ [][(current_state # STATE_AT_KITCHEN /\ OrderEnters)
            => o_pc' = "reject_accept"]_vars
    /\ [][OrderRejectStep
            => /\ o_pc' \in {"reject", "idle"}
               /\ delivery_order_received' = delivery_order_received
               /\ delivery_location' = delivery_location]_vars
    /\ [][(OrderRejectStep /\ o_pc' = "idle")
            => /\ server_goal' \in {RejectResult, DeliveryResult}
               /\ server_goal'.success = FALSE
               /\ (server_goal = Active => server_goal' = RejectResult)]_vars

\* An order has been rejected away from the kitchen and nothing was stored.
C4_Witness ==
    /\ server_goal = RejectResult
    /\ current_state = STATE_GOTO_KITCHEN
    /\ o_pc = "idle"
    /\ ~delivery_order_received
    /\ delivery_location = Unset

\* ------------------------------------------------------------------------
\* C5: whenever a handler is about to call send_goal, the goal sent before
\* has already had its done callback.
C5_OneRequestInFlight ==
    pc \in {"init_send", "ak_send", "at_send"} => nav_result # "pending"

\* ------------------------------------------------------------------------
\* C6: between the dispatch of a cycle and its sleep, _current_state
\* changes at most once: every change starts from the value the cycle was
\* dispatched on (a second change would start from another value).
C6_OneChangePerTick ==
    [][(tick_state # Unset /\ current_state' # current_state)
         => current_state = tick_state]_vars

\* ------------------------------------------------------------------------
\* C7: every step that takes the state out of ON_ERROR is line 124 of
\* _process_button (a green edge) and ends in INITIALIZATION.
C7_OnlyGreenEdgeLeavesError ==
    [][(current_state = STATE_ON_ERROR /\ current_state' # STATE_ON_ERROR)
         => (ButtonRecovers /\ current_state' = STATE_INITIALIZATION)]_vars

\* ------------------------------------------------------------------------
\* C8: the result reported for a completed round trip, on the second arrival
\* at the kitchen, carries success = True.
C8_RoundTripReportsSuccess ==
    (current_state = STATE_AT_KITCHEN
       /\ server_goal.message = SuccessMessage)
        => server_goal.success = TRUE

\* ------------------------------------------------------------------------
\* C9: when the delivery result is reported on arrival at the kitchen, the
\* order it is reported for is the accepted order, still awaiting its result.
C9_ResultReachesAcceptedOrder ==
    (pc = "gk_report" /\ order_in_progress) => server_goal = Active

\* ------------------------------------------------------------------------
\* C10: a cycle of the INITIALIZATION handler that finds the robot localized
\* issues exactly one request, to the kitchen, and assigns GOTO_KITCHEN in
\* the same cycle; a cycle that does not find it localized issues none; and
\* one INITIALIZATION episode issues at most one request.
C10_Inv ==
    /\ (pc = "rate" /\ tick_state = STATE_INITIALIZATION)
         => \/ tick_reqs = <<>> /\ tick_writes = <<>>
            \/ tick_reqs = <<kitchen_location>>
                 /\ tick_writes = <<STATE_GOTO_KITCHEN>>
    /\ episode_reqs <= 1

C10_LocalizedStartsPickup ==
    /\ []C10_Inv
    /\ [][(pc = "init_check" /\ ControlStep)
            => (initialized <=> pc' = "init_send")]_vars

\* The INITIALIZATION handler has just sent its request and moved on.
C10_Witness ==
    /\ pc = "rate" /\ tick_state = STATE_INITIALIZATION
    /\ tick_reqs = <<kitchen_location>>
    /\ current_state = STATE_GOTO_KITCHEN
    /\ episode_reqs = 1

\* ------------------------------------------------------------------------
\* C11: every arrival at AT_TABLE (line 261) finds _customer_confirm False:
\* a confirmation is consumed by the visit it was given in and never
\* carried over to a later visit.
C11_ConfirmConsumedOnce ==
    [][(current_state # STATE_AT_TABLE /\ current_state' = STATE_AT_TABLE)
         => ~customer_confirm']_vars

\* ------------------------------------------------------------------------
\* C12: the control loop never stops on a read of a field that has not been
\* assigned: neither a handler nor the periodic emission raises.
C12_LoopNeverRaises ==
    pc # "crashed"

\* ------------------------------------------------------------------------
\* C13: the loop emits exactly in the cycles in which its counter returns
\* to 1, one cycle in SpinPeriod; every emission flips the blink phase, puts
\* one LED off and the other coloured, the off LED being led1 in phase 1 and
\* led2 in phase 2, and the colour is red if the state read by the emission
\* is ON_ERROR and green otherwise.
C13_EmissionStep == pc = "blink" /\ pc' = "sleep"

C13_IndicatorAlternation ==
    /\ [](pc \in {"logging", "blink"} => t = 1)
    /\ [][(pc = "rate" /\ ControlStep)
            => /\ t' = (t % SpinPeriod) + 1
               /\ (pc' = "logging" <=> t' = 1)]_vars
    /\ [][C13_EmissionStep
            => /\ last_blink_led' # last_blink_led
               /\ led1' # led2'
               /\ (led1' = off_led <=> last_blink_led' = 1)
               /\ (led2' = off_led <=> last_blink_led' = 2)
               /\ {led1', led2'} =
                    {off_led, IF current_state = STATE_ON_ERROR
                              THEN red_led ELSE green_led}]_vars

\* The second emission of a run, made in a state other than ON_ERROR.
C13_Witness ==
    /\ pc = "sleep" /\ t = 1
    /\ last_blink_led = 2
    /\ led1 = green_led /\ led2 = off_led

\* ------------------------------------------------------------------------
\* C14: in one INITIALIZATION episode (from the green edge that enters it to
\* the step that leaves it) the localization request is published at most
\* once, and whenever the INITIALIZATION handler passes its latch (lines
\* 216-221) the episode it runs in has had its request: the first cycle of
\* every episode publishes one.
C14_LocalizeOncePerEpisode ==
    /\ [](localize_sent <= 1)
    /\ [][(pc = "init_latch" /\ ControlStep) => localize_sent' = 1]_vars

\* ------------------------------------------------------------------------
\* C15: a step of _navigator_feedback, with or without the retry signal,
\* changes none of _current_state, _delivery_order_received,
\* _delivery_location, _customer_confirm, _initialized, _init_requested,
\* _order_in_progress and _navigator_finished; it writes _navigator_feed.
C15_FeedbackStep ==
    navigator_feed' # navigator_feed \/ "_navigator_feed" \in assigned' \ assigned

C15_FeedbackKeepsState ==
    [][C15_FeedbackStep
         => /\ UNCHANGED <<current_state, delivery_order_received,
                           delivery_location, customer_confirm, initialized,
                           init_requested, order_in_progress,
                           navigator_finished>>
            /\ "_navigator_feed" \in assigned']_vars

\* A progress notification has arrived during a delivery whose navigation is
\* still pending, and the machine is as the handler left it.
C15_Witness ==
    /\ "_navigator_feed" \in assigned
    /\ current_state = STATE_GOTO_TABLE /\ nav_result = "pending"
    /\ order_in_progress /\ ~navigator_finished
    /\ ~delivery_order_received /\ ~customer_confirm

\* ------------------------------------------------------------------------
\* C16: the finished signal of a successful navigation is never lost: at the
\* start of a cycle in a GOTO state whose request has resolved with success
\* and whose done callback has returned,
\* _navigator_finished is True, so the handler moves on to the arrival
\* state.
C16_SuccessIsNotLost ==
    (pc = "idle" /\ d_pc = "idle"
       /\ current_state \in {STATE_GOTO_KITCHEN, STATE_GOTO_TABLE}
       /\ nav_result = "success")
        => navigator_finished

\* ------------------------------------------------------------------------
\* C17: an order is pending only in AT_KITCHEN: _delivery_order_received
\* implies _current_state = AT_KITCHEN.
C17_PendingOnlyAtKitchen ==
    delivery_order_received => current_state = STATE_AT_KITCHEN

\* ------------------------------------------------------------------------
\* C18: whenever the state becomes AT_KITCHEN or AT_TABLE, the navigation
\* request issued last has resolved with success.
C18_ArrivalOnlyAfterSuccess ==
    [][(current_state' # current_state
          /\ current_state' \in {STATE_AT_KITCHEN, STATE_AT_TABLE})
         => nav_result' = "success"]_vars

\* ------------------------------------------------------------------------
\* C19: _process_deliver_order takes its accepting branch only while
\* _order_in_progress is False.
C19_AcceptedOnlyWhenIdle ==
    [][OrderAccepted => ~order_in_progress]_vars

\* ------------------------------------------------------------------------
\* C20: the machine starts in ON_ERROR with nothing requested, and as long
\* as no green rising edge has been seen every step keeps it there: no
\* localization request, no navigation request, no change of state.  The
\* first button sample is not an edge, whatever it carries; a green rising
\* edge between two samples starts the recovery.
C20_BeforeFirstEdge ==
    current_state = STATE_ON_ERROR /\ nav_result = "none" /\ b_pc = "idle"

C20_GreenEdge ==
    /\ previous_button # None
    /\ previous_button' # previous_button
    /\ ~previous_button[1].green
    /\ previous_button'[1].green

C20_Quiet ==
    /\ localize_sent = 0 /\ ~init_requested
    /\ tick_reqs = <<>> /\ episode_reqs = 0

C20_StaysInErrorUntilGreenEdge ==
    /\ [](previous_button = None => (C20_BeforeFirstEdge /\ C20_Quiet))
    /\ [][(C20_BeforeFirstEdge /\ ~C20_GreenEdge)
            => (C20_BeforeFirstEdge /\ C20_Quiet)']_vars
    /\ [][(C20_BeforeFirstEdge /\ C20_GreenEdge) => b_pc' = "set_init"]_vars

\* Before any green edge: the first sample carried the green button pressed,
\* and the control loop has run the ON_ERROR handler.
C20_Witness ==
    /\ C20_BeforeFirstEdge /\ C20_Quiet
    /\ previous_button = <<[green |-> TRUE, red |-> FALSE]>>
    /\ pc = "rate" /\ tick_state = STATE_ON_ERROR
====
